---------------------------- MODULE Spec2Model ----------------------------
(***************************************************************************)
(* A model of mindcv/utils/callbacks.py: the StateMonitor training         *)
(* callback (validation schedule, EMA swap and restore, best checkpoint,   *)
(* checkpoint schedule, metric reduction across devices).                  *)
(*                                                                         *)
(* Conventions.  Python lists are 0-based, TLA+ sequences 1-based: the     *)
(* code's res[0] is res[1] here.  Strings the code takes apart or builds   *)
(* (parameter names, checkpoint paths) are sequences of one-character      *)
(* strings.  Metric values are exact rationals <<numerator, denominator>>  *)
(* in lowest terms (float32 rounding is not modelled).  Wall-clock time    *)
(* (self.start, self.epoch_start) and printing are left out: no claim      *)
(* reads them.                                                             *)
(***************************************************************************)
EXTENDS Integers, Sequences, FiniteSets, TLC

\* ------------------------------------------------------------------ bounds
MaxEpochs == 3
BatchNum == 2
NumRanks == 2

\* ------------------------------------------------------- program constants
LogInterval == 100
KeepCheckpointMax == 10

None == "None"

\* ------------------------------------------------------------- rationals
RECURSIVE GCD(_, _)
GCD(a, b) == IF b = 0 THEN a ELSE GCD(b, a % b)

Abs(n) == IF n < 0 THEN -n ELSE n

RatNorm(n, d) ==
    LET g == GCD(Abs(n), d)
    IN  IF n = 0 THEN <<0, 1>> ELSE <<n \div g, d \div g>>

Zero == <<0, 1>>
RatMulInt(r, k) == RatNorm(r[1] * k, r[2])
RatDivInt(r, k) == RatNorm(r[1], r[2] * k)
RatAdd(a, b) == RatNorm(a[1] * b[2] + b[1] * a[2], a[2] * b[2])
RatGT(a, b) == a[1] * b[2] > b[1] * a[2]

\* --------------------------------------------------------------- strings
\* The least index >= i at which sep occurs in s, or 0.
RECURSIVE Find(_, _, _)
Find(s, sep, i) ==
    IF i + Len(sep) - 1 > Len(s) THEN 0
    ELSE IF SubSeq(s, i, i + Len(sep) - 1) = sep THEN i
    ELSE Find(s, sep, i + 1)

\* str.startswith
StartsWith(s, p) == Len(s) >= Len(p) /\ SubSeq(s, 1, Len(p)) = p

\* str.split(sep): the pieces of s between the occurrences of sep, left to right.
RECURSIVE Split(_, _)
Split(s, sep) ==
    LET i == Find(s, sep, 1)
    IN  IF i = 0 THEN <<s>>
        ELSE <<SubSeq(s, 1, i - 1)>> \o Split(SubSeq(s, i + Len(sep), Len(s)), sep)

\* str(n) for n >= 0
Digit(d) == <<"0", "1", "2", "3", "4", "5", "6", "7", "8", "9">>[d + 1]
RECURSIVE Str(_)
Str(n) == IF n < 10 THEN <<Digit(n)>> ELSE Str(n \div 10) \o <<Digit(n % 10)>>

\* os.path.join(a, b) for a relative b
PathJoin(a, b) ==
    IF a = <<>> \/ a[Len(a)] = "/" THEN a \o b ELSE a \o <<"/">> \o b


\* ------------------------------------------------------- parameter names
P_w == <<"w">>
P_b == <<"b">>
P_ema_w == <<"e", "m", "a", ".", "w">>
P_emaw == <<"e", "m", "a", "w">>
EmaPrefix == <<"e", "m", "a">>
EmaDot == <<"e", "m", "a", ".">>

\* The parameter collections a training network may have: an online weight with
\* its EMA copy and a weight without one; and one holding a parameter whose name
\* starts with "ema" without the dot.
ParamNameSets == {{P_w, P_b, P_ema_w}, {P_w, P_ema_w, P_emaw}}

\* What model.eval may return for metric_name, and what the network may output.
metric_name == <<"Top_1_Accuracy", "Top_5_Accuracy">>
MetricIdx == 1..Len(metric_name)
EvalResults == {<<Zero, Zero>>, <<(<<1, 100>>), (<<1, 50>>)>>, <<(<<1, 50>>), (<<1, 50>>)>>}
PeerEvalResults == {<<Zero, Zero>>, <<(<<1, 50>>), (<<1, 50>>)>>}
NetOutputKinds == {"Tensor", "tuple", "None", "empty_tuple", "str"}

model_name == <<"m">>
ckpt_dir == <<".", "/">>
epoch_num == MaxEpochs
batch_num == BatchNum

VARIABLES
    \* constructor arguments (self.*)
    dataset_val, val_start_epoch, val_interval, save_best_ckpt,
    ckpt_save_interval, last_epoch, rank_id, device_num, ema,
    \* the engine: position, cb_params, the training network's parameters
    pc, exc, cur_epoch_num, cur_step_num, net_outputs, net,
    \* the callback's own state and what it has written
    swap_params, best_res, best_epoch, best_ckpt, optim_ckpt, save_requests,
    \* history: what happened in each epoch-end hook
    eval_calls, epoch_log,
    \* one callback per rank, around the all_reduce collective
    r_pc, r_epoch, r_res, r_best_res, r_best_epoch, r_ckpts, r_calls

cfgvars == <<dataset_val, val_start_epoch, val_interval, save_best_ckpt,
             ckpt_save_interval, last_epoch, rank_id, device_num, ema>>
runvars == <<pc, exc, cur_epoch_num, cur_step_num, net_outputs, net>>
cbvars == <<swap_params, best_res, best_epoch, best_ckpt, optim_ckpt, save_requests>>
histvars == <<eval_calls, epoch_log>>
rankvars == <<r_pc, r_epoch, r_res, r_best_res, r_best_epoch, r_ckpts, r_calls>>
vars == <<cfgvars, runvars, cbvars, histvars, rankvars>>

Devices == 0..(device_num - 1)

\* ------------------------------------------------------------ __init__
\* An optional value is a sequence of at most one element: <<>> is None.
\* rank_id=None, device_num=n gives rank 0 of 1 device (lines 60-61).
InitRankId(arg_rank) == IF arg_rank # <<>> THEN arg_rank[1] ELSE 0
InitDeviceNum(arg_rank, arg_devices) == IF arg_rank # <<>> THEN arg_devices ELSE 1

InitWeights(names) ==
    [p \in names |-> IF StartsWith(p, EmaPrefix) THEN 50 + Len(p)
                     ELSE IF p = P_w THEN 10 ELSE 20]

ZeroRes == [i \in MetricIdx |-> Zero]

InitCallback ==
    /\ best_res = Zero
    /\ best_epoch = -1
    /\ best_ckpt = <<>>
    /\ optim_ckpt = <<>>
    /\ save_requests = <<>>
    /\ swap_params = [p \in DOMAIN net |-> 0]

InitConfig ==
    /\ dataset_val \in BOOLEAN
    /\ val_start_epoch \in (IF dataset_val THEN {1, 2} ELSE {1})
    /\ val_interval \in (IF dataset_val THEN {1, 2} ELSE {1})
    /\ save_best_ckpt \in (IF dataset_val THEN BOOLEAN ELSE {TRUE})
    /\ ckpt_save_interval \in {2, 3}
    /\ last_epoch \in {0, 1}
    /\ ema \in (IF dataset_val THEN BOOLEAN ELSE {FALSE})

Init ==
    /\ InitConfig
    /\ \E arg_rank \in {<<>>, <<0>>, <<1>>}, arg_devices \in {2} :
          /\ rank_id = InitRankId(arg_rank)
          /\ device_num = InitDeviceNum(arg_rank, arg_devices)
    /\ pc = "train"
    /\ exc = None
    /\ cur_epoch_num = 1
    /\ cur_step_num = 0
    /\ net_outputs = "Tensor"
    /\ \E names \in (IF ema THEN ParamNameSets ELSE {{P_w, P_b}}) :
          net = InitWeights(names)
    /\ InitCallback
    /\ eval_calls = <<>>
    /\ epoch_log = <<>>
    /\ r_pc = <<>> /\ r_epoch = <<>> /\ r_res = <<>> /\ r_best_res = <<>>
    /\ r_best_epoch = <<>> /\ r_ckpts = <<>> /\ r_calls = <<>>

\* ------------------------------------------------------------ _get_loss
\* The kind of value _get_loss returns for a network output of kind `output`.
GetLoss(output) ==
    IF output = "None" THEN None
    ELSE IF output \in {"int", "float", "Tensor"} THEN "Tensor"
    ELSE IF output \in {"list", "tuple"} THEN "Tensor"
    ELSE None

\* ------------------------------------------------------------ the engine
\* One training step of the engine: every parameter moves, cb_params advance.
TrainStep ==
    /\ pc = "train"
    /\ cur_step_num' = cur_step_num + 1
    /\ cur_epoch_num' = (cur_step_num \div batch_num) + 1
    /\ net' = [p \in DOMAIN net |-> net[p] + 1]
    /\ net_outputs' \in NetOutputKinds
    /\ pc' = "step_end"
    /\ UNCHANGED <<exc, cfgvars, cbvars, histvars, rankvars>>

\* ---------------------------------------------------- on_train_step_end
Logs(cur_step_in_epoch) ==
    \/ (cur_step_in_epoch + 1) % LogInterval = 0
    \/ (cur_step_in_epoch + 1) >= batch_num
    \/ cur_step_in_epoch = 0

OnTrainStepEnd ==
    /\ pc = "step_end"
    /\ LET cur_step_in_epoch == (cur_step_num - 1) % batch_num
       IN  IF Logs(cur_step_in_epoch) /\ GetLoss(net_outputs) = None
           THEN \* loss.asnumpy() on None, line 160
                /\ pc' = "raised"
                /\ exc' = "AttributeError"
           ELSE /\ pc' = IF cur_step_num % batch_num = 0 THEN "epoch_end" ELSE "train"
                /\ exc' = exc
    /\ UNCHANGED <<cur_epoch_num, cur_step_num, net_outputs, net,
                   cfgvars, cbvars, histvars, rankvars>>

\* ------------------------------------------------------------ apply_eval
EmaParams(n) == {p \in DOMAIN n : StartsWith(p, EmaPrefix)}

\* param.name.split("ema.")[1] raises IndexError when the name holds no "ema."
SplitRaises(n) == \E p \in EmaParams(n) : Len(Split(p, EmaDot)) < 2

\* ema_dict, as the set of its (new_name, value) items
EmaDict(n) == {<<Split(p, EmaDot)[2], n[p]>> : p \in EmaParams(n)}

\* load_param_into_net: the parameters named in the dict take its values
LoadParamIntoNet(n, dict) ==
    [p \in DOMAIN n |->
        IF \E kv \in dict : kv[1] = p
        THEN (CHOOSE kv \in dict : kv[1] = p)[2]
        ELSE n[p]]

\* self.map(ops.assign, self.swap_params, self.online_params)
SaveToSwap(swap, online) == online

RestoreSkipped(online, swap) == online
\* self.map(ops.assign, self.online_params, self.swap_params)
RestoreFromSwap(online, swap) == swap

\* The call's outcome: whether it raised, the swap slots and the network after
\* it, and the weights model.eval ran on.
ApplyEval(n, swap) ==
    IF ~ema
    THEN [raised |-> FALSE, swap |-> swap, eval_net |-> <<n>>, net |-> n]
    ELSE LET swap1 == SaveToSwap(swap, n)
             loaded == LoadParamIntoNet(n, EmaDict(n))
         IN  IF SplitRaises(n)
             THEN [raised |-> TRUE, swap |-> swap1, eval_net |-> <<>>, net |-> n]
             ELSE [raised |-> FALSE, swap |-> swap1, eval_net |-> <<loaded>>,
                   net |-> RestoreFromSwap(loaded, swap1)]

\* --------------------------------------------------- on_train_epoch_end
ValidatesEveryEpoch(cur_epoch) == dataset_val /\ cur_epoch >= val_start_epoch
ShouldValidate(cur_epoch) ==
    /\ dataset_val
    /\ cur_epoch >= val_start_epoch
    /\ (cur_epoch - val_start_epoch) % val_interval = 0

\* res[i] = mind_res[self.metric_name[i]] * 100
LocalRes(mind_res) == [i \in MetricIdx |-> RatMulInt(mind_res[i], 100)]

\* AllReduceSum (reduce_manager): the element-wise sum of every device's tensor
RECURSIVE SumOver(_, _, _)
SumOver(contrib, ds, i) ==
    IF ds = {} THEN Zero
    ELSE LET d == CHOOSE x \in ds : TRUE
         IN  RatAdd(contrib[d][i], SumOver(contrib, ds \ {d}, i))
AllReduceSum(contrib) == [i \in MetricIdx |-> SumOver(contrib, DOMAIN contrib, i)]

\* res /= self.device_num
DivideByDevices(res, n) == [i \in MetricIdx |-> RatDivInt(res[i], n)]

ReduceNoDivide(contrib, n) == IF n > 1 THEN AllReduceSum(contrib) ELSE contrib[rank_id]
\* the metric vector after lines 194-196, from every device's local vector
Reduce(contrib, n) ==
    IF n > 1
    THEN DivideByDevices(AllReduceSum(contrib), n)
    ELSE contrib[rank_id]

IsNewBestOrEqual(res, best) == ~RatGT(best, res[1])
IsAboveZero(res, best) == RatGT(res[1], Zero)
\* if res[0] > self.best_res
IsNewBest(res, best) == RatGT(res[1], best)

\* the checkpoint schedule of line 219
Schedule(cur_epoch) == cur_epoch % ckpt_save_interval = 0 \/ cur_epoch = epoch_num

\* if self.rank_id in [0, None], and the schedule
SavesAt(cur_epoch) == rank_id = 0 /\ Schedule(cur_epoch)

CkptPath(cur_epoch) ==
    PathJoin(ckpt_dir, model_name \o <<"-">> \o Str(cur_epoch) \o <<"_">>
                       \o Str(batch_num) \o <<".", "c", "k", "p", "t">>)

RequestMetricOfBest(res) == best_res
\* metric=res[0]
RequestMetric(res) == res[1]

\* self._manager.save_ckpoint(...): the request handed to the checkpoint manager
\* (epoch is the hook call it came from, kept for the record)
SaveRequest(cur_epoch, res, n) ==
    [num_ckpt |-> KeepCheckpointMax, metric |-> RequestMetric(res),
     save_path |-> CkptPath(cur_epoch), network |-> n, epoch |-> cur_epoch]

EpochEnd(cur_epoch, validate, evals) ==
    LET ev == IF validate THEN ApplyEval(net, swap_params)
              ELSE [raised |-> FALSE, swap |-> swap_params, eval_net |-> <<>>, net |-> net]
        call == [epoch |-> cur_epoch, before |-> net, eval_net |-> ev.eval_net,
                 after |-> ev.net, returned |-> ~ev.raised]
    IN  /\ swap_params' = ev.swap
        /\ net' = ev.net
        /\ eval_calls' = IF validate THEN Append(eval_calls, call) ELSE eval_calls
        /\ IF ev.raised
           THEN /\ pc' = "raised"
                /\ exc' = "IndexError"
                /\ UNCHANGED <<best_res, best_epoch, best_ckpt, optim_ckpt,
                               save_requests, epoch_log>>
           ELSE LET res == IF validate
                           THEN Reduce([d \in Devices |-> LocalRes(evals[d])], device_num)
                           ELSE ZeroRes
                    better == validate /\ rank_id = 0 /\ IsNewBest(res, best_res)
                    loss == GetLoss(net_outputs)
                IN  /\ best_res' = IF better THEN res[1] ELSE best_res
                    /\ best_epoch' = IF better THEN cur_epoch ELSE best_epoch
                    /\ best_ckpt' = IF better /\ save_best_ckpt /\ rank_id = 0
                                    THEN <<ev.net>> ELSE best_ckpt
                    /\ optim_ckpt' = IF SavesAt(cur_epoch) THEN <<cur_epoch>> ELSE optim_ckpt
                    /\ save_requests' =
                          IF SavesAt(cur_epoch)
                          THEN Append(save_requests, SaveRequest(cur_epoch, res, ev.net))
                          ELSE save_requests
                    /\ epoch_log' = Append(epoch_log,
                          [epoch |-> cur_epoch, validated |-> validate, res |-> res,
                           locals |-> IF validate THEN <<evals>> ELSE <<>>,
                           reduced |-> IF validate /\ device_num > 1 THEN 1 ELSE 0,
                           net |-> ev.net])
                    /\ IF rank_id = 0 /\ loss = None
                       THEN \* loss.asnumpy() on None, line 247
                            pc' = "raised" /\ exc' = "AttributeError"
                       ELSE /\ pc' = IF cur_epoch_num = epoch_num
                                     THEN "train_end" ELSE "train"
                            /\ exc' = exc

\* What model.eval returns on each device in one epoch (this rank's own result,
\* and the peers' results that reach it through all_reduce).
DeviceEvals ==
    {f \in [Devices -> EvalResults] :
        \A d \in Devices : d # rank_id => f[d] \in PeerEvalResults}

OnTrainEpochEnd ==
    /\ pc = "epoch_end"
    /\ LET cur_epoch == cur_epoch_num + last_epoch
       IN  IF ShouldValidate(cur_epoch)
           THEN \E evals \in DeviceEvals : EpochEnd(cur_epoch, TRUE, evals)
           ELSE EpochEnd(cur_epoch, FALSE, <<>>)
    /\ UNCHANGED <<cur_epoch_num, cur_step_num, net_outputs, cfgvars, rankvars>>

\* ------------------------------------------------------- on_train_end
OnTrainEnd ==
    /\ pc = "train_end"
    /\ pc' = "done"
    /\ UNCHANGED <<exc, cur_epoch_num, cur_step_num, net_outputs, net,
                   cfgvars, cbvars, histvars, rankvars>>

Next == TrainStep \/ OnTrainStepEnd \/ OnTrainEpochEnd \/ OnTrainEnd

Spec == Init /\ [][Next]_vars

\* ==================================================== one callback per rank
\* Every rank runs the same training script: the same constructor arguments apart
\* from rank_id, the same network, the same number of epochs.  A rank's position
\* is "epoch_end" (its engine is about to call on_train_epoch_end for r_epoch),
\* "all_reduce" (inside the hook, waiting in the collective of line 195),
\* "reduced" (the collective has returned), "done" or "raised".  The collective
\* returns on every rank at once, when every rank has entered it.  What a rank
\* writes to its files is in Spec; here r_ckpts keeps only the epochs it saved.
\* The step hooks are in Spec too: a network output _get_loss cannot parse is the
\* same on every rank (one network) and ends every rank's run in its first
\* step-end hook, before any collective, so the ranks here have a parsed loss.
Ranks == 0..(NumRanks - 1)

InitRanks ==
    /\ InitConfig
    /\ rank_id = 0
    /\ device_num = NumRanks
    /\ pc = "train"
    /\ exc = None
    /\ cur_epoch_num = 1
    /\ cur_step_num = 0
    /\ net_outputs = "Tensor"
    /\ \E names \in (IF ema THEN ParamNameSets ELSE {{P_w, P_b}}) :
          net = InitWeights(names)
    /\ InitCallback
    /\ eval_calls = <<>>
    /\ epoch_log = <<>>
    /\ r_pc = [r \in Ranks |-> "epoch_end"]
    /\ r_epoch = [r \in Ranks |-> 1]
    /\ r_res = [r \in Ranks |-> ZeroRes]
    /\ r_best_res = [r \in Ranks |-> Zero]
    /\ r_best_epoch = [r \in Ranks |-> -1]
    /\ r_ckpts = [r \in Ranks |-> <<>>]
    /\ r_calls = [r \in Ranks |-> <<>>]

\* cur_epoch = cb_params.cur_epoch_num + self.last_epoch, on rank r
RankEpoch(r) == r_epoch[r] + last_epoch

RankReducesOnRankZero(r, cur_epoch) == device_num > 1 /\ r = 0
\* if self.device_num > 1: res = self.all_reduce(res)
RankCallsAllReduce(r, cur_epoch) == device_num > 1

\* Lines 198-254 on rank r, and the engine's move to the next epoch.
RankFinish(r, validate, res) ==
    LET cur_epoch == RankEpoch(r)
        better == validate /\ r = 0 /\ IsNewBest(res, r_best_res[r])
        last == r_epoch[r] = epoch_num
    IN  /\ r_best_res' = [r_best_res EXCEPT ![r] = IF better THEN res[1] ELSE @]
        /\ r_best_epoch' = [r_best_epoch EXCEPT ![r] = IF better THEN cur_epoch ELSE @]
        /\ r_ckpts' = [r_ckpts EXCEPT ![r] =
                          IF r = 0 /\ Schedule(cur_epoch) THEN Append(@, cur_epoch) ELSE @]
        /\ r_pc' = [r_pc EXCEPT ![r] = IF last THEN "done" ELSE "epoch_end"]
        /\ r_epoch' = [r_epoch EXCEPT ![r] = IF last THEN @ ELSE @ + 1]

\* on_train_epoch_end on rank r, up to the call of all_reduce (or to its end when
\* the hook does not call it).
RankEpochEndEnter(r) ==
    /\ r_pc[r] = "epoch_end"
    /\ LET cur_epoch == RankEpoch(r)
       IN  IF ~ShouldValidate(cur_epoch)
           THEN RankFinish(r, FALSE, ZeroRes) /\ UNCHANGED <<r_res, r_calls>>
           ELSE IF ApplyEval(net, swap_params).raised
           THEN /\ r_pc' = [r_pc EXCEPT ![r] = "raised"]
                /\ UNCHANGED <<r_epoch, r_res, r_best_res, r_best_epoch, r_ckpts, r_calls>>
           ELSE \E mind_res \in EvalResults :
                   IF RankCallsAllReduce(r, cur_epoch)
                   THEN /\ r_pc' = [r_pc EXCEPT ![r] = "all_reduce"]
                        /\ r_res' = [r_res EXCEPT ![r] = LocalRes(mind_res)]
                        /\ r_calls' = [r_calls EXCEPT ![r] = Append(@, cur_epoch)]
                        /\ UNCHANGED <<r_epoch, r_best_res, r_best_epoch, r_ckpts>>
                   ELSE /\ RankFinish(r, TRUE, LocalRes(mind_res))
                        /\ r_res' = [r_res EXCEPT ![r] = LocalRes(mind_res)]
                        /\ UNCHANGED r_calls
    /\ UNCHANGED <<cfgvars, runvars, cbvars, histvars>>

\* The collective: every rank is in it, every rank gets the sum.
AllReduceReturns ==
    /\ \A r \in Ranks : r_pc[r] = "all_reduce"
    /\ r_res' = [r \in Ranks |-> AllReduceSum(r_res)]
    /\ r_pc' = [r \in Ranks |-> "reduced"]
    /\ UNCHANGED <<r_epoch, r_best_res, r_best_epoch, r_ckpts, r_calls,
                   cfgvars, runvars, cbvars, histvars>>

\* on_train_epoch_end on rank r, from the return of all_reduce to its end.
RankEpochEndFinish(r) ==
    /\ r_pc[r] = "reduced"
    /\ RankFinish(r, TRUE, DivideByDevices(r_res[r], device_num))
    /\ r_res' = [r_res EXCEPT ![r] = DivideByDevices(@, device_num)]
    /\ UNCHANGED <<r_calls, cfgvars, runvars, cbvars, histvars>>

NextRanks ==
    \/ \E r \in Ranks : RankEpochEndEnter(r)
    \/ AllReduceReturns
    \/ \E r \in Ranks : RankEpochEndFinish(r)

SpecRanks == InitRanks /\ [][NextRanks]_vars

\* =================================================================== claims
\* The validated epochs of the log, oldest first.
ValHist == SelectSeq(epoch_log, LAMBDA r : r.validated)
RatEq(a, b) == a[1] * b[2] = b[1] * a[2]

\* The schedule of line 188, written out.
ValidationDue(e) ==
    dataset_val /\ e >= val_start_epoch /\ (e - val_start_epoch) % val_interval = 0

\* C1 (as stated): on rank 0 with save_best_ckpt, once an epoch has been validated
\* the best checkpoint file holds the network of a validated epoch whose first
\* metric is the highest of all validated epochs so far.
C1_BestFileAfterAnyValidation ==
    (rank_id = 0 /\ save_best_ckpt /\ ValHist # <<>>) =>
        \E i \in DOMAIN ValHist :
            /\ \A j \in DOMAIN ValHist : ~RatGT(ValHist[j].res[1], ValHist[i].res[1])
            /\ best_ckpt = <<ValHist[i].net>>

\* C1 (amended): on rank 0 with save_best_ckpt, once a validated epoch has had a
\* first metric above 0, the best checkpoint file holds the network of the earliest
\* validated epoch whose first metric is the highest of all validated epochs so
\* far; until then no best checkpoint file is written.
C1_BestFileHoldsBestEpoch ==
    (rank_id = 0 /\ save_best_ckpt) =>
        IF \E i \in DOMAIN ValHist : RatGT(ValHist[i].res[1], Zero)
        THEN \E i \in DOMAIN ValHist :
                /\ \A j \in DOMAIN ValHist : ~RatGT(ValHist[j].res[1], ValHist[i].res[1])
                /\ \A j \in 1..(i - 1) : RatGT(ValHist[i].res[1], ValHist[j].res[1])
                /\ best_ckpt = <<ValHist[i].net>>
        ELSE best_ckpt = <<>>

C1_Witness ==
    /\ rank_id = 0 /\ save_best_ckpt /\ Len(ValHist) >= 2
    /\ RatGT(ValHist[1].res[1], Zero)
    /\ RatEq(ValHist[2].res[1], ValHist[1].res[1])
    /\ best_ckpt = <<ValHist[1].net>>
    /\ best_ckpt # <<net>>

\* The network with every parameter that has an "ema."-prefixed copy holding that
\* copy's value.
EmaWeights(n) ==
    [p \in DOMAIN n |-> IF (EmaDot \o p) \in DOMAIN n THEN n[EmaDot \o p] ELSE n[p]]

\* C2: with ema, every apply_eval call that returns ran model.eval on the network
\* with each parameter that has an "ema."-prefixed copy holding that copy's value,
\* and left every parameter of the network with the value it had before the call,
\* however many validations have run.
C2_EmaSwapRestores ==
    \A k \in DOMAIN eval_calls :
        LET c == eval_calls[k]
        IN  c.returned =>
                /\ c.after = c.before
                /\ c.eval_net = <<IF ema THEN EmaWeights(c.before) ELSE c.before>>

C2_Witness ==
    /\ ema /\ Len(eval_calls) >= 2
    /\ \A k \in DOMAIN eval_calls :
          /\ eval_calls[k].returned
          /\ eval_calls[k].eval_net # <<eval_calls[k].before>>
    /\ net = eval_calls[Len(eval_calls)].before

EvalCallsAt(e) == Cardinality({k \in DOMAIN eval_calls : eval_calls[k].epoch = e})

\* C3: the epoch-end hooks run for global epochs 1 + last_epoch, 2 + last_epoch,
\* ...; the hook for epoch e calls apply_eval exactly once if dataset_val is given,
\* e >= val_start_epoch and (e - val_start_epoch) % val_interval = 0, and not at all
\* otherwise, and then the epoch's metric vector is all zeros.

C3_ValidationSchedule ==
    /\ \A k \in DOMAIN eval_calls : ValidationDue(eval_calls[k].epoch)
    /\ \A i \in DOMAIN epoch_log :
          LET r == epoch_log[i]
          IN  /\ r.epoch = i + last_epoch
              /\ r.validated = ValidationDue(r.epoch)
              /\ EvalCallsAt(r.epoch) = IF ValidationDue(r.epoch) THEN 1 ELSE 0
              /\ ~ValidationDue(r.epoch) => \A m \in MetricIdx : r.res[m] = Zero

C3_Witness ==
    /\ dataset_val /\ Len(epoch_log) = epoch_num
    /\ \E i, j \in DOMAIN epoch_log :
          /\ i < j
          /\ ~epoch_log[i].validated /\ epoch_log[i].epoch >= val_start_epoch
          /\ epoch_log[j].validated

\* The requests handed to the checkpoint manager by the hook of global epoch e,
\* and the schedule of line 219, written out.
RequestsAt(e) == {k \in DOMAIN save_requests : save_requests[k].epoch = e}
ScheduleDue(e) == e % ckpt_save_interval = 0 \/ e = epoch_num
TrainingOver == pc \in {"train_end", "done"}

\* C4 (as stated): on rank 0 the hook of global epoch e saves the optimizer state
\* and a network checkpoint exactly when e % ckpt_save_interval = 0 or
\* e = cb_params.epoch_num; the last epoch of a run (cur_epoch_num = epoch_num) is
\* therefore always saved; other ranks save nothing.
C4_LastEpochAlwaysSaved ==
    /\ \A i \in DOMAIN epoch_log :
          LET e == epoch_log[i].epoch
          IN  (RequestsAt(e) # {}) = (rank_id = 0 /\ ScheduleDue(e))
    /\ rank_id # 0 => (save_requests = <<>> /\ optim_ckpt = <<>>)
    /\ (rank_id = 0 /\ save_requests # <<>>) =>
          optim_ckpt = <<save_requests[Len(save_requests)].epoch>>
    /\ (rank_id = 0 /\ TrainingOver) =>
          /\ RequestsAt(epoch_num + last_epoch) # {}
          /\ optim_ckpt = <<epoch_num + last_epoch>>

\* C5 (as stated): every epoch that saves hands the checkpoint manager exactly one
\* request, with num_ckpt = keep_checkpoint_max, a path no other epoch of the run
\* uses, and as metric the validation accuracy measured in that same epoch.
C5_MetricIsOwnValidationAccuracy ==
    \A k \in DOMAIN save_requests :
        LET q == save_requests[k]
        IN  /\ q.num_ckpt = KeepCheckpointMax
            /\ \A m \in DOMAIN save_requests :
                  m # k => /\ save_requests[m].epoch # q.epoch
                           /\ save_requests[m].save_path # q.save_path
            /\ \E i \in DOMAIN ValHist :
                  /\ ValHist[i].epoch = q.epoch
                  /\ q.metric = ValHist[i].res[1]

\* C5 (amended): ... and as metric the first entry of that epoch's metric vector:
\* the (reduced) validation accuracy when the epoch was validated, 0 when it was
\* not.
C5_MetricIsEpochRes ==
    \A k \in DOMAIN save_requests :
        LET q == save_requests[k]
        IN  /\ q.num_ckpt = KeepCheckpointMax
            /\ \A m \in DOMAIN save_requests :
                  m # k => /\ save_requests[m].epoch # q.epoch
                           /\ save_requests[m].save_path # q.save_path
            /\ \E i \in DOMAIN epoch_log :
                  /\ epoch_log[i].epoch = q.epoch
                  /\ q.metric = epoch_log[i].res[1]
                  /\ ~epoch_log[i].validated => q.metric = Zero

C5_Witness ==
    /\ Len(save_requests) >= 2
    /\ \E k, m \in DOMAIN save_requests, i, j \in DOMAIN epoch_log :
          /\ epoch_log[i].epoch = save_requests[k].epoch
          /\ epoch_log[i].validated
          /\ RatGT(save_requests[k].metric, Zero)
          /\ RatGT(best_res, save_requests[k].metric)
          /\ epoch_log[j].epoch = save_requests[m].epoch
          /\ ~epoch_log[j].validated

\* A metric times 100, a whole number for the metrics of EvalResults (the first
\* conjunct of C6 checks that nothing is cut off), and its sum over devices.
Percent(x) == (x[1] * 100) \div x[2]
RECURSIVE PercentSum(_, _, _)
PercentSum(evals, ds, m) ==
    IF ds = {} THEN 0
    ELSE LET d == CHOOSE x \in ds : TRUE
         IN  Percent(evals[d][m]) + PercentSum(evals, ds \ {d}, m)

\* C6: with device_num > 1 every entry of a validated epoch's metric vector is the
\* sum over the devices of (the device's metric * 100), divided by device_num, and
\* all_reduce was called once; with device_num = 1 it is the local metric * 100
\* and all_reduce was not called.

C6_ReducedMetricIsMean ==
    \A i \in DOMAIN ValHist :
        LET r == ValHist[i]
            evals == r.locals[1]
        IN  \A m \in MetricIdx :
                /\ Percent(evals[rank_id][m]) * evals[rank_id][m][2] = evals[rank_id][m][1] * 100
                /\ IF device_num > 1
                   THEN /\ r.res[m][1] * device_num = PercentSum(evals, Devices, m) * r.res[m][2]
                        /\ r.reduced = 1
                   ELSE /\ r.res[m][1] = Percent(evals[rank_id][m]) * r.res[m][2]
                        /\ r.reduced = 0

C6_Witness ==
    /\ device_num > 1
    /\ \E i \in DOMAIN ValHist :
          /\ ValHist[i].res[1][2] > 1
          /\ \E d \in Devices : ValHist[i].locals[1][d] # ValHist[i].locals[1][rank_id]
    /\ rank_id = 0 => best_res = ValHist[Len(ValHist)].res[1]

\* C7 (as stated): _get_loss gives a Tensor for an int, float or Tensor output and
\* for a non-empty list or tuple, and None otherwise; a hook that gets None does
\* not raise.
C7_NoneLossNeverRaises ==
    /\ GetLoss(net_outputs) = IF net_outputs \in {"Tensor", "tuple"} THEN "Tensor" ELSE None
    /\ GetLoss(net_outputs) = None => pc # "raised"

\* best_res and best_epoch against the validated epochs so far.
BestTracksHistory ==
    IF \E i \in DOMAIN ValHist : RatGT(ValHist[i].res[1], Zero)
    THEN \E i \in DOMAIN ValHist :
            /\ best_epoch = ValHist[i].epoch
            /\ best_res = ValHist[i].res[1]
            /\ \A j \in DOMAIN ValHist : ~RatGT(ValHist[j].res[1], best_res)
            /\ \A j \in 1..(i - 1) : ValHist[j].res[1] # best_res
    ELSE best_epoch = -1 /\ best_res = Zero

\* One step: best_res does not decrease; best_res and best_epoch change together,
\* only on rank 0, in the hook of a validated epoch whose first metric is above
\* the best_res before it.
BestStep ==
    /\ ~RatGT(best_res, best_res')
    /\ (best_res' # best_res) = (best_epoch' # best_epoch)
    /\ best_res' # best_res =>
          /\ rank_id = 0
          /\ Len(epoch_log') = Len(epoch_log) + 1
          /\ LET r == epoch_log'[Len(epoch_log')]
             IN  /\ r.validated
                 /\ RatGT(r.res[1], best_res)
                 /\ best_res' = r.res[1]
                 /\ best_epoch' = r.epoch

BestInv ==
    IF rank_id = 0 THEN BestTracksHistory ELSE best_epoch = -1 /\ best_res = Zero

\* C8 (as stated): best_res never decreases; best_res and best_epoch change only
\* together, only on rank 0, in a validated epoch whose first metric is above the
\* current best_res; best_epoch = -1 exactly when no validated epoch has had a
\* first metric above 0, and otherwise it is the earliest validated epoch whose
\* first metric equals best_res.
C8_BestEpochOnEveryRank == [][BestStep /\ BestTracksHistory']_vars

\* C8 (amended): best_res never decreases; best_res and best_epoch change only
\* together, only on rank 0, in a validated epoch whose first metric is above the
\* current best_res; on rank 0, best_epoch = -1 exactly when no validated epoch has
\* had a first metric above 0, and otherwise it is the earliest validated epoch
\* whose first metric equals best_res; on every other rank best_res stays 0 and
\* best_epoch stays -1.
C8_BestBookkeeping == [][BestStep /\ BestInv']_vars

C8_Witness ==
    /\ rank_id = 0 /\ Len(ValHist) = 3
    /\ best_epoch = ValHist[2].epoch
    /\ RatGT(best_res, ValHist[1].res[1])
    /\ RatGT(ValHist[1].res[1], Zero)
    /\ ValHist[3].res[1] = best_res

\* Rank q's hook for global epoch e has ended; the all_reduce calls of rank r in e.
RankPassed(q, e) == r_pc[q] = "done" \/ RankEpoch(q) > e
RankCallsAt(r, e) == Cardinality({k \in DOMAIN r_calls[r] : r_calls[r][k] = e})

\* C9: ranks built with the same dataset_val, val_start_epoch, val_interval,
\* last_epoch and device_num > 1 call all_reduce in the same epochs, the epochs in
\* which validation is due, once each; a rank waiting in all_reduce for epoch e is
\* never waiting for a rank that has raised, has finished training, has passed
\* epoch e, or is in the collective for another epoch.

C9_CollectiveAligned ==
    \A r \in Ranks :
        /\ \A e \in (1 + last_epoch)..(epoch_num + last_epoch) :
              RankPassed(r, e) => RankCallsAt(r, e) = IF ValidationDue(e) THEN 1 ELSE 0
        /\ \A q \in Ranks :
              /\ \A k \in DOMAIN r_calls[r] \cap DOMAIN r_calls[q] :
                    r_calls[r][k] = r_calls[q][k]
              /\ r_pc[r] = "all_reduce" =>
                    /\ r_pc[q] \in {"epoch_end", "all_reduce", "reduced"}
                    /\ RankEpoch(q) <= RankEpoch(r)
                    /\ r_pc[q] = "all_reduce" => RankEpoch(q) = RankEpoch(r)
                    /\ r_pc[q] = "reduced" => RankEpoch(q) < RankEpoch(r)

C9_Witness ==
    /\ r_pc[0] = "all_reduce" /\ r_pc[1] = "epoch_end"
    /\ RankEpoch(1) < RankEpoch(0)
    /\ Len(r_calls[0]) = 2 /\ Len(r_calls[1]) = 1
    /\ r_best_res[0] # Zero

=============================================================================
